---- MODULE Spec2Model ----
(***************************************************************************)
(* RHBot-v2, rhbot/utils.py: the token-accounting dispatcher               *)
(* num_tokens_from_messages (three counting strategies behind one          *)
(* coroutine) and the permission check is_admin_or_ai_manager.             *)
(*                                                                         *)
(* Text is a sequence of characters.  "a" and "b" are ordinary characters, *)
(* "S" stands for the text of a special token ("<|endoftext|>"), "N" for a *)
(* newline, "U", "A", "E" for the framing the chat template writes.        *)
(* Python values that are not text are tagged records (PyInt, PyNone); a   *)
(* field holding None is the one-element sequence NoneVal.                 *)
(***************************************************************************)
EXTENDS Integers, Sequences, FiniteSets, TLC

\* ------------------------------------------------------------------ bounds
MaxMsgs == 2
NumTasks == 2
MaxRoleId == 2

\* ------------------------------------------------------- program constants
PerMessageOverhead == 3
PrimingOverhead == 3
StatusOK == 200

\* ------------------------------------------------------------ Python values
PyInt(n) == [type |-> "int", v |-> n]
PyNone == [type |-> "NoneType", v |-> 0]
Truthy(x) == x.type = "int" /\ x.v # 0

NoneVal == <<"None">>
IsStr(x) == x # NoneVal

Return(x) == [kind |-> "return", val |-> x, exc |-> ""]
Raise(e) == [kind |-> "raise", val |-> PyNone, exc |-> e]
Pending == [kind |-> "pending", val |-> PyNone, exc |-> ""]

\* ------------------------------------------------------------------ inputs
Roles == {"system", "user", "assistant", "tool"}
Contents == {<<>>, <<"a", "b">>, <<"S">>, NoneVal}
Names == {<<"a", "b">>}

\* Message dicts: the well-formed ones, ones carrying a name, one without a
\* role and ones without content.
Messages ==
    [role : Roles, content : Contents]
    \cup [role : {"user"}, content : {<<>>, <<"a", "b">>}, name : Names]
    \cup [content : {<<"a", "b">>}]
    \cup [role : {"user", "tool"}]

SeqsUpTo(S, n) == UNION {[1..k -> S] : k \in 0..n}
Conversations == SeqsUpTo(Messages, MaxMsgs)

Models == {"openai/gpt-4o", "anthropic/claude-3.7-sonnet",
           "microsoft/wizardlm-2-8x22b", "unknown/model", "openai/gpt-4o-mini"}

HasKey(m, k) == k \in DOMAIN m

\* --------------------------------------------------------------- tokenizers
\* Byte-pair encoding with one merge rule: "a" followed by "b" is one token.
RECURSIVE BpeTokens(_)
BpeTokens(s) ==
    IF s = <<>> THEN <<>>
    ELSE IF Len(s) >= 2 /\ s[1] = "a" /\ s[2] = "b"
         THEN <<"ab">> \o BpeTokens(SubSeq(s, 3, Len(s)))
         ELSE <<s[1]>> \o BpeTokens(Tail(s))

HasSpecial(s) == \E i \in 1..Len(s) : s[i] = "S"

\* ENCODING_GPT4O.encode(value): raises on a value that is not text and on
\* text holding a special token (tiktoken's disallowed_special default).
Gpt4oEncodeRaises(x) == ~IsStr(x) \/ HasSpecial(x)
Gpt4oEncode(x) == BpeTokens(x)

\* TOKENIZER_WIZARDLM.encode(value, add_special_tokens=...): raises on a value
\* that is not text; with special tokens it would prepend the BOS token.
WizardEncodeRaises(x) == ~IsStr(x)

\* Faulty variant: add_special_tokens left at its default.
WizardEncodeAlwaysSpecial(x, add_special_tokens) == <<"<s>">> \o BpeTokens(x)

WizardEncode(x, add_special_tokens) ==
    (IF add_special_tokens THEN <<"<s>">> ELSE <<>>) \o BpeTokens(x)

\* TOKENIZER_WIZARDLM.apply_chat_template(messages, tokenize=False).  The
\* template belongs to the tokenizer; it reads role and content of every
\* message and writes system text, USER: and ASSISTANT: turns.
ChatTemplateRaises(msgs, broken) ==
    \/ broken
    \/ \E i \in 1..Len(msgs) :
         \/ ~HasKey(msgs[i], "role")
         \/ ~HasKey(msgs[i], "content")
         \/ ~IsStr(msgs[i]["content"])

RECURSIVE ApplyChatTemplate(_)
ApplyChatTemplate(msgs) ==
    IF msgs = <<>> THEN <<>>
    ELSE LET m == Head(msgs)
             turn == CASE m["role"] = "system" -> m["content"] \o <<"N">>
                       [] m["role"] = "user" -> <<"U">> \o m["content"] \o <<"N">>
                       [] m["role"] = "assistant" -> <<"A">> \o m["content"] \o <<"E">>
                       [] OTHER -> <<>>
         IN turn \o ApplyChatTemplate(Tail(msgs))

\* ------------------------------------------------------------------- state
VARIABLES
    messages,     \* task -> the messages argument (the caller's list)
    given,        \* task -> the list as it was when the call was made
    model,        \* task -> the model argument
    pc,           \* task -> position of the coroutine
    idx,          \* task -> messages already visited by the worker's loop
    num_tokens,   \* cell -> the local accumulator of _gpt4o_count
    outcome,      \* task -> what the call did: pending, return x, raise e
    posted,       \* task -> the JSON payloads posted to the endpoint
    response,     \* task -> what the endpoint answered
    tokCalls,     \* task -> tokenizer calls made (encode, apply_chat_template)
    logged,       \* task -> logger.error entries written
    loop,         \* the task occupying the event-loop thread, 0 when free
    tmplBroken,   \* task -> the tokenizer's chat template is malformed
    fellBack,     \* task -> the except branch of _wizardlm_count ran
    authPc, isAdmin, userRoles, roleFile, roleRead, authResult, fileReads

tokenVars == <<messages, given, model, pc, idx, num_tokens, outcome, posted,
               response, tokCalls, logged, loop, tmplBroken, fellBack>>
authVars == <<authPc, isAdmin, userRoles, roleFile, roleRead, authResult, fileReads>>
vars == <<tokenVars, authVars>>

Tasks == DOMAIN pc

\* ---------------------------------------------------------------- dispatch
\* The if / elif / else chain on the model argument: exact string equality.
\* Faulty variant: the first branch taken as the default of the chain.
BranchDefaultsToGpt4o(m) ==
    CASE m = "anthropic/claude-3.7-sonnet" -> "anthropic"
      [] m = "microsoft/wizardlm-2-8x22b" -> "wizardlm"
      [] OTHER -> "gpt4o"

Branch(m) ==
    CASE m = "openai/gpt-4o" -> "gpt4o"
      [] m = "anthropic/claude-3.7-sonnet" -> "anthropic"
      [] m = "microsoft/wizardlm-2-8x22b" -> "wizardlm"
      [] OTHER -> "unsupported"

\* Where the local counting closures run: asyncio.to_thread hands them to a
\* worker thread and the coroutine awaits the result.
\* Faulty variant: the closure called directly in the coroutine.
ExecContextInline == "loop"

ExecContext == "worker"

\* The frame holding an invocation's local variables: one per call.
\* Faulty variant: the accumulator kept in one module-level variable.
CellShared(t) == 1

Cell(t) == t

\* ----------------------------------------------------- strategy 1: gpt-4o
\* One pass of the body of `for message in messages` in _gpt4o_count.
Gpt4oMessageRaises(m) ==
    \/ HasKey(m, "content") /\ Gpt4oEncodeRaises(m["content"])
    \/ HasKey(m, "name") /\ Gpt4oEncodeRaises(m["name"])

\* Faulty variant: the role field counted as well.
Gpt4oMessageTokensEveryField(m) ==
    PerMessageOverhead
    + (IF HasKey(m, "role") THEN 1 ELSE 0)
    + (IF HasKey(m, "content") THEN Len(Gpt4oEncode(m["content"])) ELSE 0)
    + (IF HasKey(m, "name") THEN Len(Gpt4oEncode(m["name"])) ELSE 0)

Gpt4oMessageTokens(m) ==
    PerMessageOverhead
    + (IF HasKey(m, "content") THEN Len(Gpt4oEncode(m["content"])) ELSE 0)
    + (IF HasKey(m, "name") THEN Len(Gpt4oEncode(m["name"])) ELSE 0)

\* encode calls one pass makes: content and name, in the dict's order, up to
\* the first one that raises.
Gpt4oMessageCalls(m) ==
    IF HasKey(m, "content") /\ Gpt4oEncodeRaises(m["content"]) THEN 1
    ELSE (IF HasKey(m, "content") THEN 1 ELSE 0) + (IF HasKey(m, "name") THEN 1 ELSE 0)

\* -------------------------------------------------- strategy 2: anthropic
\* The partition loop reads msg['role'] of every message and msg['content']
\* of the system, user and assistant ones.
PartitionRaises(msgs) ==
    \E i \in 1..Len(msgs) :
        \/ ~HasKey(msgs[i], "role")
        \/ /\ msgs[i]["role"] \in {"system", "user", "assistant"}
           /\ ~HasKey(msgs[i], "content")

SystemParts(msgs) ==
    LET sys == SelectSeq(msgs, LAMBDA m : m["role"] = "system")
    IN [i \in 1..Len(sys) |-> sys[i]["content"]]

ChatMessages(msgs) ==
    LET chat == SelectSeq(msgs, LAMBDA m : m["role"] \in {"user", "assistant"})
    IN [i \in 1..Len(chat) |-> [role |-> chat[i]["role"], content |-> chat[i]["content"]]]

\* "\n".join(parts): raises TypeError when a part is not text.
JoinRaises(parts) == \E i \in 1..Len(parts) : ~IsStr(parts[i])

RECURSIVE Join(_)
Join(parts) ==
    IF parts = <<>> THEN <<>>
    ELSE IF Len(parts) = 1 THEN parts[1]
    ELSE parts[1] \o <<"N">> \o Join(Tail(parts))

Payload(msgs) ==
    [model |-> "claude-3-7-sonnet-20250219",
     system |-> Join(SystemParts(msgs)),
     messages |-> ChatMessages(msgs)]

\* What the endpoint can do with one request.  sent = FALSE: session.post
\* raised.  body: "not_json" (response.json() raises), "unreadable" (reading
\* the body raises), "not_object" (JSON that is no object), "no_field" (an
\* object without input_tokens), "object" (an object with input_tokens).
Statuses == {StatusOK, 201, 500}
TokenValues == {PyInt(0), PyInt(42), PyNone}
Responses ==
    {[sent |-> FALSE, status |-> 0, body |-> "none", input_tokens |-> PyNone]}
    \cup {[sent |-> TRUE, status |-> StatusOK, body |-> b, input_tokens |-> PyNone] :
             b \in {"not_json", "unreadable", "not_object", "no_field"}}
    \cup {[sent |-> TRUE, status |-> s, body |-> b, input_tokens |-> PyNone] :
             s \in Statuses \ {StatusOK}, b \in {"not_json", "unreadable"}}
    \cup {[sent |-> TRUE, status |-> s, body |-> "object", input_tokens |-> x] :
             s \in Statuses, x \in TokenValues}
NoResponse == [sent |-> FALSE, status |-> 0, body |-> "pending", input_tokens |-> PyNone]

\* The try / except around the request, from the response on:
\* [ret |-> the value returned, logs |-> logger.error calls made].
\* Faulty variant: the priming overhead added to the reported count.
OnResponsePlusPriming(r) ==
    IF r.sent /\ r.status = StatusOK /\ r.body = "object"
    THEN [ret |-> IF r.input_tokens.type = "int"
                  THEN PyInt(r.input_tokens.v + PrimingOverhead)
                  ELSE r.input_tokens,
          logs |-> 0]
    ELSE [ret |-> PyInt(0), logs |-> 1]

\* sent = FALSE: the except branch.  Status 200: response.json() and
\* data['input_tokens'] raise into the except branch unless the body is an
\* object with the field.  Any other status: response.text() either raises
\* into the except branch or the else branch logs; both log once, return 0.
OnResponse(r) ==
    IF ~r.sent THEN [ret |-> PyInt(0), logs |-> 1]
    ELSE IF r.status = StatusOK
         THEN IF r.body = "object"
              THEN [ret |-> r.input_tokens, logs |-> 0]
              ELSE [ret |-> PyInt(0), logs |-> 1]
         ELSE [ret |-> PyInt(0), logs |-> 1]

\* ---------------------------------------------------------- initial states
AuthOff ==
    /\ authPc = "off"
    /\ isAdmin = FALSE
    /\ userRoles = {}
    /\ roleFile = [state |-> "absent", role_id |-> PyNone]
    /\ roleRead = PyNone
    /\ authResult = "none"
    /\ fileReads = 0

InitTasks(T, convs) ==
    /\ messages \in [T -> convs]
    /\ given = messages
    /\ model \in [T -> Models]
    /\ pc = [t \in T |-> "start"]
    /\ idx = [t \in T |-> 0]
    /\ num_tokens = [t \in T |-> 0]
    /\ outcome = [t \in T |-> Pending]
    /\ posted = [t \in T |-> <<>>]
    /\ response = [t \in T |-> NoResponse]
    /\ tokCalls = [t \in T |-> 0]
    /\ logged = [t \in T |-> 0]
    /\ loop = 0
    /\ tmplBroken = [t \in T |-> FALSE]
    /\ fellBack = [t \in T |-> FALSE]

\* One invocation, on any conversation.
Init == InitTasks({1}, Conversations) /\ AuthOff

\* Concurrent invocations on the same event loop.
ConcConversations ==
    { <<[role |-> "system", content |-> <<"a", "b">>],
        [role |-> "user", content |-> <<>>, name |-> <<"a", "b">>]>>,
      <<[role |-> "user"]>> }

InitConc == InitTasks(1..NumTasks, ConcConversations) /\ AuthOff

\* ------------------------------------------------------------------ actions
\* Steps that run on the event-loop thread need it free.
LoopFree == loop = 0

\* model == 'openai/gpt-4o': _gpt4o_count is handed to asyncio.to_thread.
StartGpt4o(t) ==
    /\ pc[t] = "start" /\ LoopFree
    /\ Branch(model[t]) = "gpt4o"
    /\ pc' = [pc EXCEPT ![t] = "gpt4o_count"]
    /\ idx' = [idx EXCEPT ![t] = 0]
    /\ num_tokens' = [num_tokens EXCEPT ![Cell(t)] = 0]
    /\ loop' = IF ExecContext = "worker" THEN 0 ELSE t
    /\ UNCHANGED <<messages, given, model, outcome, posted, response, tokCalls,
                   logged, tmplBroken, fellBack, authVars>>

\* One pass of `for message in messages`.
Gpt4oStep(t) ==
    /\ pc[t] = "gpt4o_count"
    /\ idx[t] < Len(messages[t])
    /\ LET m == messages[t][idx[t] + 1] IN
        /\ tokCalls' = [tokCalls EXCEPT ![t] = @ + Gpt4oMessageCalls(m)]
        /\ IF Gpt4oMessageRaises(m)
           THEN /\ outcome' = [outcome EXCEPT ![t] = Raise("encode")]
                /\ pc' = [pc EXCEPT ![t] = "thread_done"]
                /\ UNCHANGED <<idx, num_tokens>>
           ELSE /\ num_tokens' = [num_tokens EXCEPT ![Cell(t)] = @ + Gpt4oMessageTokens(m)]
                /\ idx' = [idx EXCEPT ![t] = @ + 1]
                /\ UNCHANGED <<outcome, pc>>
    /\ UNCHANGED <<messages, given, model, posted, response, logged, loop,
                   tmplBroken, fellBack, authVars>>

\* After the loop: the assistant priming, and the closure returns.
Gpt4oFinish(t) ==
    /\ pc[t] = "gpt4o_count"
    /\ idx[t] = Len(messages[t])
    /\ num_tokens' = [num_tokens EXCEPT ![Cell(t)] = @ + PrimingOverhead]
    /\ outcome' = [outcome EXCEPT ![t] = Return(PyInt(num_tokens'[Cell(t)]))]
    /\ pc' = [pc EXCEPT ![t] = "thread_done"]
    /\ UNCHANGED <<messages, given, model, idx, posted, response, tokCalls,
                   logged, loop, tmplBroken, fellBack, authVars>>

\* model == 'microsoft/wizardlm-2-8x22b': _wizardlm_count goes to a thread.
StartWizardlm(t) ==
    /\ pc[t] = "start" /\ LoopFree
    /\ Branch(model[t]) = "wizardlm"
    /\ pc' = [pc EXCEPT ![t] = "wizardlm_try"]
    /\ loop' = IF ExecContext = "worker" THEN 0 ELSE t
    /\ UNCHANGED <<messages, given, model, idx, num_tokens, outcome, posted,
                   response, tokCalls, logged, tmplBroken, fellBack, authVars>>

\* The try block: render the template, encode the rendered string (text,
\* which encode accepts: only the rendering can fail here).
WizardlmTry(t) ==
    /\ pc[t] = "wizardlm_try"
    /\ \E broken \in BOOLEAN :
        /\ tmplBroken' = [tmplBroken EXCEPT ![t] = broken]
        /\ IF ChatTemplateRaises(messages[t], broken)
           THEN /\ fellBack' = [fellBack EXCEPT ![t] = TRUE]
                /\ num_tokens' = [num_tokens EXCEPT ![Cell(t)] = 0]
                /\ idx' = [idx EXCEPT ![t] = 0]
                /\ pc' = [pc EXCEPT ![t] = "wizardlm_except"]
                /\ tokCalls' = [tokCalls EXCEPT ![t] = @ + 1]
                /\ UNCHANGED outcome
           ELSE /\ outcome' = [outcome EXCEPT ![t] =
                      Return(PyInt(Len(WizardEncode(ApplyChatTemplate(messages[t]), FALSE))))]
                /\ pc' = [pc EXCEPT ![t] = "thread_done"]
                /\ tokCalls' = [tokCalls EXCEPT ![t] = @ + 2]
                /\ UNCHANGED <<fellBack, num_tokens, idx>>
    /\ UNCHANGED <<messages, given, model, posted, response, logged, loop, authVars>>

\* The except block, one pass of `for msg in messages`.
WizardlmFallbackStep(t) ==
    /\ pc[t] = "wizardlm_except"
    /\ idx[t] < Len(messages[t])
    /\ LET m == messages[t][idx[t] + 1] IN
        IF ~HasKey(m, "content")
        THEN /\ outcome' = [outcome EXCEPT ![t] = Raise("KeyError")]
             /\ pc' = [pc EXCEPT ![t] = "thread_done"]
             /\ UNCHANGED <<idx, num_tokens, tokCalls>>
        ELSE /\ tokCalls' = [tokCalls EXCEPT ![t] = @ + 1]
             /\ IF WizardEncodeRaises(m["content"])
                THEN /\ outcome' = [outcome EXCEPT ![t] = Raise("encode")]
                     /\ pc' = [pc EXCEPT ![t] = "thread_done"]
                     /\ UNCHANGED <<idx, num_tokens>>
                ELSE /\ num_tokens' = [num_tokens EXCEPT ![Cell(t)] =
                            @ + Len(WizardEncode(m["content"], FALSE))]
                     /\ idx' = [idx EXCEPT ![t] = @ + 1]
                     /\ UNCHANGED <<outcome, pc>>
    /\ UNCHANGED <<messages, given, model, posted, response, logged, loop,
                   tmplBroken, fellBack, authVars>>

WizardlmFallbackFinish(t) ==
    /\ pc[t] = "wizardlm_except"
    /\ idx[t] = Len(messages[t])
    /\ outcome' = [outcome EXCEPT ![t] = Return(PyInt(num_tokens[Cell(t)]))]
    /\ pc' = [pc EXCEPT ![t] = "thread_done"]
    /\ UNCHANGED <<messages, given, model, idx, num_tokens, posted, response,
                   tokCalls, logged, loop, tmplBroken, fellBack, authVars>>

\* `return await asyncio.to_thread(...)`: the coroutine resumes on the loop
\* with the closure's result, or with the exception it raised.
Resume(t) ==
    /\ pc[t] = "thread_done"
    /\ loop \in {0, t}
    /\ pc' = [pc EXCEPT ![t] = "done"]
    /\ loop' = 0
    /\ UNCHANGED <<messages, given, model, idx, num_tokens, outcome, posted,
                   response, tokCalls, logged, tmplBroken, fellBack, authVars>>

\* model == 'anthropic/claude-3.7-sonnet': the partition loop, then inside
\* the try the payload is built and posted; the coroutine awaits the answer.
StartAnthropic(t) ==
    /\ pc[t] = "start" /\ LoopFree
    /\ Branch(model[t]) = "anthropic"
    /\ IF PartitionRaises(messages[t])
       THEN /\ outcome' = [outcome EXCEPT ![t] = Raise("KeyError")]
            /\ pc' = [pc EXCEPT ![t] = "done"]
            /\ UNCHANGED <<posted, logged>>
       ELSE IF JoinRaises(SystemParts(messages[t]))
       THEN /\ logged' = [logged EXCEPT ![t] = @ + 1]
            /\ outcome' = [outcome EXCEPT ![t] = Return(PyInt(0))]
            /\ pc' = [pc EXCEPT ![t] = "done"]
            /\ UNCHANGED posted
       ELSE /\ posted' = [posted EXCEPT ![t] = Append(@, Payload(messages[t]))]
            /\ pc' = [pc EXCEPT ![t] = "awaiting_post"]
            /\ UNCHANGED <<outcome, logged>>
    /\ UNCHANGED <<messages, given, model, idx, num_tokens, response, tokCalls,
                   loop, tmplBroken, fellBack, authVars>>

\* The network and the endpoint answer the request, or fail it.
Respond(t) ==
    /\ pc[t] = "awaiting_post"
    /\ \E r \in Responses : response' = [response EXCEPT ![t] = r]
    /\ pc' = [pc EXCEPT ![t] = "post_done"]
    /\ UNCHANGED <<messages, given, model, idx, num_tokens, outcome, posted,
                   tokCalls, logged, loop, tmplBroken, fellBack, authVars>>

\* The coroutine resumes on the loop with the answer.
HandleResponse(t) ==
    /\ pc[t] = "post_done" /\ LoopFree
    /\ outcome' = [outcome EXCEPT ![t] = Return(OnResponse(response[t]).ret)]
    /\ logged' = [logged EXCEPT ![t] = @ + OnResponse(response[t]).logs]
    /\ pc' = [pc EXCEPT ![t] = "done"]
    /\ UNCHANGED <<messages, given, model, idx, num_tokens, posted, response,
                   tokCalls, loop, tmplBroken, fellBack, authVars>>

\* else: raise ValueError(f"Unsupported model: {model}")
RaiseUnsupported(t) ==
    /\ pc[t] = "start" /\ LoopFree
    /\ Branch(model[t]) = "unsupported"
    /\ outcome' = [outcome EXCEPT ![t] = Raise("ValueError")]
    /\ pc' = [pc EXCEPT ![t] = "done"]
    /\ UNCHANGED <<messages, given, model, idx, num_tokens, posted, response,
                   tokCalls, logged, loop, tmplBroken, fellBack, authVars>>

Next ==
    \/ \E t \in Tasks : StartGpt4o(t)
    \/ \E t \in Tasks : Gpt4oStep(t)
    \/ \E t \in Tasks : Gpt4oFinish(t)
    \/ \E t \in Tasks : StartWizardlm(t)
    \/ \E t \in Tasks : WizardlmTry(t)
    \/ \E t \in Tasks : WizardlmFallbackStep(t)
    \/ \E t \in Tasks : WizardlmFallbackFinish(t)
    \/ \E t \in Tasks : Resume(t)
    \/ \E t \in Tasks : StartAnthropic(t)
    \/ \E t \in Tasks : Respond(t)
    \/ \E t \in Tasks : HandleResponse(t)
    \/ \E t \in Tasks : RaiseUnsupported(t)

Spec == Init /\ [][Next]_vars
SpecConc == InitConc /\ [][Next]_vars

\* --------------------------------------------------- the permission check
RoleIds == 1..MaxRoleId

\* The guild's ai_manager_role.json: absent, present but not openable, not
\* JSON, JSON that is no object, or an object whose role_id is missing
\* (PyNone, what data.get gives) or a number.
RoleFiles ==
    {[state |-> st, role_id |-> PyNone] :
        st \in {"absent", "unreadable", "invalid_json", "not_object", "object"}}
    \cup {[state |-> "object", role_id |-> PyInt(k)] : k \in 0..MaxRoleId}

\* get_ai_manager_role: None when the file does not exist; the bare except
\* turns every failure of open, json.load and data.get into None.
GetAiManagerRole(f) ==
    IF f.state = "object" THEN Return(f.role_id) ELSE Return(PyNone)

\* ai_manager_role and any(role.id == ai_manager_role for role in user.roles)
\* Faulty variant: any role accepted once a manager role is stored.
HoldsManagerRoleAnyRole(ai_manager_role, roles) ==
    Truthy(ai_manager_role) /\ roles # {}

HoldsManagerRole(ai_manager_role, roles) ==
    Truthy(ai_manager_role) /\ \E r \in roles : PyInt(r) = ai_manager_role

InitAuth ==
    /\ InitTasks({}, Conversations)
    /\ authPc = "start"
    /\ isAdmin \in BOOLEAN
    /\ userRoles \in SUBSET RoleIds
    /\ roleFile \in RoleFiles
    /\ roleRead = PyNone
    /\ authResult = "none"
    /\ fileReads = 0

\* if interaction.user.guild_permissions.administrator: return True
CheckAdministrator ==
    /\ authPc = "start"
    /\ IF isAdmin
       THEN authResult' = "True" /\ authPc' = "done"
       ELSE authPc' = "get_role" /\ UNCHANGED authResult
    /\ UNCHANGED <<isAdmin, userRoles, roleFile, roleRead, fileReads, tokenVars>>

\* ai_manager_role = get_ai_manager_role(interaction.guild.id)
CallGetAiManagerRole ==
    /\ authPc = "get_role"
    /\ fileReads' = fileReads + 1
    /\ LET got == GetAiManagerRole(roleFile) IN
        IF got.kind = "return"
        THEN roleRead' = got.val /\ authPc' = "decide" /\ UNCHANGED authResult
        ELSE authResult' = "Exception" /\ authPc' = "done" /\ UNCHANGED roleRead
    /\ UNCHANGED <<isAdmin, userRoles, roleFile, tokenVars>>

\* return True for a holder of the role, raise CheckFailure otherwise
DecideManager ==
    /\ authPc = "decide"
    /\ authResult' = IF HoldsManagerRole(roleRead, userRoles)
                     THEN "True" ELSE "CheckFailure"
    /\ authPc' = "done"
    /\ UNCHANGED <<isAdmin, userRoles, roleFile, roleRead, fileReads, tokenVars>>

NextAuth ==
    \/ CheckAdministrator
    \/ CallGetAiManagerRole
    \/ DecideManager

SpecAuth == InitAuth /\ [][NextAuth]_vars

\* ================================================================== claims
Recognized == {"openai/gpt-4o", "anthropic/claude-3.7-sonnet",
               "microsoft/wizardlm-2-8x22b"}
Finished(t) == pc[t] = "done"
Returned(t) == Finished(t) /\ outcome[t].kind = "return"
Answered(t) == response[t] # NoResponse

\* The token length of a field, 0 when the message has none.
FieldTokens(m, k) == IF HasKey(m, k) THEN Len(BpeTokens(m[k])) ELSE 0

RECURSIVE SumTokens(_, _)
SumTokens(msgs, k) ==
    IF msgs = <<>> THEN 0
    ELSE FieldTokens(Head(msgs), k) + SumTokens(Tail(msgs), k)

\* C1: a model identifier that is not one of the three recognized strings
\* makes the call fail with the unsupported-model error, for an empty and a
\* non-empty conversation alike, with no tokenizer call and no request made
\* at any point of the call.
C1_UnsupportedModelFailsFast ==
    \A t \in Tasks :
        model[t] \notin Recognized =>
            /\ pc[t] \in {"start", "done"}
            /\ Finished(t) => outcome[t] = Raise("ValueError")
            /\ tokCalls[t] = 0
            /\ posted[t] = <<>>

C1_Witness ==
    \E t \in Tasks :
        /\ model[t] = "openai/gpt-4o-mini"
        /\ Len(messages[t]) = MaxMsgs
        /\ Finished(t)
        /\ outcome[t].kind = "raise"

C3_RemoteReturnsVerbatim ==
    \A t \in Tasks :
        (/\ model[t] = "anthropic/claude-3.7-sonnet"
         /\ Finished(t) /\ Answered(t)
         /\ response[t].sent /\ response[t].status = StatusOK
         /\ response[t].body = "object") =>
            outcome[t] = Return(response[t].input_tokens)

C3_Witness ==
    \E t \in Tasks :
        /\ model[t] = "anthropic/claude-3.7-sonnet"
        /\ Finished(t) /\ Answered(t)
        /\ response[t].sent /\ response[t].status = StatusOK
        /\ response[t].input_tokens = PyInt(42)
        /\ messages[t] # <<>>

\* A response the remote strategy must treat as a failure: the request
\* failed, the status is not 200, or the body is unparseable or is not an
\* object with an integer input_tokens.
FailedResponse(r) ==
    \/ ~r.sent
    \/ r.status # StatusOK
    \/ r.body # "object"
    \/ r.input_tokens.type # "int"

\* C4: on a non-OK status, a network failure or a malformed or unparseable
\* body the remote strategy raises nothing, logs, and returns 0.
C4_RemoteFailureReturnsZero ==
    \A t \in Tasks :
        (/\ model[t] = "anthropic/claude-3.7-sonnet"
         /\ Finished(t) /\ Answered(t)
         /\ FailedResponse(response[t])) =>
            /\ outcome[t] = Return(PyInt(0))
            /\ logged[t] >= 1

C6_RecognizedNeverRaises ==
    \A t \in Tasks :
        (model[t] \in Recognized /\ Finished(t)) =>
            outcome[t].kind = "return" /\ outcome[t].val.type = "int"

\* The payload as the claim describes it: system contents joined by newline,
\* then the {role, content} pairs of the user and assistant messages.
RECURSIVE SystemString(_)
SystemString(msgs) ==
    IF msgs = <<>> THEN <<>>
    ELSE LET rest == SystemString(Tail(msgs))
             restHasSystem == \E i \in 2..Len(msgs) : msgs[i]["role"] = "system"
         IN IF Head(msgs)["role"] = "system"
            THEN Head(msgs)["content"] \o (IF restHasSystem THEN <<"N">> \o rest ELSE <<>>)
            ELSE rest

RECURSIVE RolePairs(_)
RolePairs(msgs) ==
    IF msgs = <<>> THEN <<>>
    ELSE IF Head(msgs)["role"] \in {"user", "assistant"}
         THEN <<[role |-> Head(msgs)["role"], content |-> Head(msgs)["content"]]>>
              \o RolePairs(Tail(msgs))
         ELSE RolePairs(Tail(msgs))

\* C7: every invocation of the remote strategy issues exactly one request,
\* whose system string and messages list are built from the conversation as
\* described.
C7_OneRequestWithPayload ==
    \A t \in Tasks :
        (model[t] = "anthropic/claude-3.7-sonnet" /\ Finished(t)) =>
            /\ Len(posted[t]) = 1
            /\ posted[t][1].system = SystemString(messages[t])
            /\ posted[t][1].messages = RolePairs(messages[t])

\* The part of C7 the code does keep: never more than one request, and a
\* request that is made carries the payload C7 describes.
PayloadWhenPosted ==
    \A t \in Tasks :
        /\ Len(posted[t]) <= 1
        /\ Len(posted[t]) = 1 =>
              /\ posted[t][1].system = SystemString(messages[t])
              /\ posted[t][1].messages = RolePairs(messages[t])
              /\ DOMAIN posted[t][1] = {"model", "system", "messages"}

\* What one invocation does when nothing else runs, as a function of its
\* arguments and of what its environment answered.
FirstBadContent(msgs) ==
    LET bad == {i \in 1..Len(msgs) :
                   ~HasKey(msgs[i], "content") \/ ~IsStr(msgs[i]["content"])}
    IN IF bad = {} THEN 0 ELSE CHOOSE i \in bad : \A j \in bad : i <= j

RunAlone(msgs, m, r, broken) ==
    CASE m = "openai/gpt-4o" ->
           IF \E i \in 1..Len(msgs) : Gpt4oMessageRaises(msgs[i])
           THEN Raise("encode")
           ELSE Return(PyInt(3 * Len(msgs) + SumTokens(msgs, "content")
                             + SumTokens(msgs, "name") + 3))
      [] m = "anthropic/claude-3.7-sonnet" ->
           IF PartitionRaises(msgs) THEN Raise("KeyError")
           ELSE IF JoinRaises(SystemParts(msgs)) THEN Return(PyInt(0))
           ELSE IF r.sent /\ r.status = StatusOK /\ r.body = "object"
                THEN Return(r.input_tokens)
                ELSE Return(PyInt(0))
      [] m = "microsoft/wizardlm-2-8x22b" ->
           IF ~ChatTemplateRaises(msgs, broken)
           THEN Return(PyInt(Len(BpeTokens(ApplyChatTemplate(msgs)))))
           ELSE IF FirstBadContent(msgs) = 0
                THEN Return(PyInt(SumTokens(msgs, "content")))
                ELSE IF HasKey(msgs[FirstBadContent(msgs)], "content")
                     THEN Raise("encode") ELSE Raise("KeyError")
      [] OTHER -> Raise("ValueError")

\* C8: concurrent invocations do not influence each other: under every
\* interleaving each one ends as it ends when run alone, and none changes
\* the messages it was given.
C8_InvocationsIndependent ==
    \A t \in Tasks :
        /\ messages[t] = given[t]
        /\ Finished(t) =>
               outcome[t] = RunAlone(given[t], model[t], response[t], tmplBroken[t])

C8_Witness ==
    \E t, u \in Tasks :
        /\ t # u
        /\ model[t] = "openai/gpt-4o" /\ pc[t] = "gpt4o_count" /\ idx[t] = 1
        /\ model[u] = "microsoft/wizardlm-2-8x22b" /\ Returned(u) /\ fellBack[u]
        /\ outcome[u].val.v > 0

\* The positions at which an invocation is counting or waiting.
InProgress(t) ==
    pc[t] \in {"gpt4o_count", "wizardlm_try", "wizardlm_except", "awaiting_post"}

\* C9: no strategy blocks the scheduler: while an invocation counts (in a
\* worker) or waits for the response, it does not hold the event loop, and
\* every other task that is ready to run on the loop can take its step.
C9_SchedulerNeverBlocked ==
    \A t \in Tasks :
        InProgress(t) =>
            /\ loop # t
            /\ \A u \in Tasks \ {t} :
                /\ pc[u] = "start" =>
                       ENABLED (\/ StartGpt4o(u) \/ StartWizardlm(u)
                                \/ StartAnthropic(u) \/ RaiseUnsupported(u))
                /\ pc[u] = "post_done" => ENABLED HandleResponse(u)
                /\ pc[u] = "thread_done" => ENABLED Resume(u)

C9_Witness ==
    \E t, u \in Tasks :
        /\ t # u
        /\ pc[t] = "gpt4o_count" /\ idx[t] = 1
        /\ pc[u] = "post_done"

\* The stored AI-manager role id, when the role file holds one.
StoredRoleIds ==
    IF roleFile.state = "object" /\ roleFile.role_id.type = "int"
    THEN {roleFile.role_id.v} ELSE {}

\* C10: the check never returns False: it returns True exactly for an
\* administrator or a holder of the stored AI-manager role and raises
\* CheckFailure otherwise; a missing, unreadable or invalid role file reads
\* as None without raising, so a non-administrator is rejected then; an
\* administrator is accepted without the role file being touched.
C10_AdminOrManagerOnly ==
    /\ authResult \in {"none", "True", "CheckFailure"}
    /\ authPc = "done" =>
        /\ authResult = "True" <=> (isAdmin \/ userRoles \cap StoredRoleIds # {})
        /\ authResult # "True" => authResult = "CheckFailure"
        /\ isAdmin => fileReads = 0
        /\ (~isAdmin /\ roleFile.state # "object") =>
               roleRead = PyNone /\ authResult = "CheckFailure"

C10_Witness ==
    /\ authPc = "done"
    /\ ~isAdmin
    /\ authResult = "True"
    /\ Cardinality(userRoles) = MaxRoleId
    /\ fileReads = 1
====
